---- MODULE Spec2Model ----
(***************************************************************************)
(* Materialized-view row storage: MViewTable (point get and scan) over an  *)
(* ordered key-value keyspace, its MViewTableIter cursor, and the          *)
(* ManagedMViewState write path that feeds the keyspace; and the           *)
(* percentile_disc aggregator (PercentileDisc).                            *)
(*                                                                         *)
(* Bytes are naturals 0..255, byte strings are sequences of bytes.         *)
(* Integers of the value model are one byte wide (i8 instead of i32): the  *)
(* memcomparable layout (flag byte, sign-flipped big-endian payload) is    *)
(* kept, the payload is shortened.                                         *)
(***************************************************************************)
EXTENDS Integers, Sequences, FiniteSets, TLC

VARIABLES
    store,      \* the state store: byte-string key -> byte-string value
    mem_table,  \* ManagedMViewState buffer per table: pk -> pending mutation
    log,        \* history: put/delete calls per table since its last successful flush
    versions,   \* history: per table, the logical content after each successful flush
    nops,       \* number of put/delete calls issued so far
    iters,      \* the open cursors (MViewTableIter), by cursor id
    last,       \* the most recent call and what it returned
    agg         \* the PercentileDisc aggregator: its fraction and accumulated data

vars == <<store, mem_table, log, versions, nops, iters, last, agg>>

----------------------------------------------------------------------------
(* Bounds and configuration *)

\* schema.len() of the table under test (three Int32 columns)
SchemaLen == 3
\* total number of put/delete calls in a behaviour
MaxOps == 3
\* number of successful flushes per table in a behaviour
MaxFlushes == 2
\* number of datums fed to the aggregator between two resets
MaxData == 4

Tables == {1, 2}
IterIds == {1}

\* Datum = Option<Scalar>
None == <<>>
Some(v) == <<v>>

\* pk_columns = [0, 1]; the primary-key rows drawn as inputs
PkRows == { <<Some(1), Some(1)>>, <<Some(1), Some(2)>> }
\* the full rows drawn as inputs of put (independent of the pk they are put under)
Rows == { <<Some(1), Some(11), Some(111)>>,
          <<None, Some(-1), Some(2)>> }

\* faulty variant: the second pk column ascending as well
Orderings_AllAscending == <<"Ascending", "Ascending">>

\* orderings = [Ascending, Descending]
Orderings == <<"Ascending", "Descending">>

\* the build profiles and the column indices of the schema
Builds == {"debug", "release"}
Columns == 0..(SchemaLen - 1)

----------------------------------------------------------------------------
(* Byte strings *)

Min(a, b) == IF a < b THEN a ELSE b

\* lexicographic byte order, the state store's key order
LexLess(a, b) ==
    \E k \in 0..Min(Len(a), Len(b)) :
        /\ \A i \in 1..k : a[i] = b[i]
        /\ \/ (k = Len(a) /\ k < Len(b))
           \/ (k < Len(a) /\ k < Len(b) /\ a[k + 1] < b[k + 1])

IsPrefixOf(p, k) == Len(p) <= Len(k) /\ SubSeq(k, 1, Len(p)) = p

RECURSIVE SortKeys(_)
SortKeys(S) ==
    IF S = {} THEN <<>>
    ELSE LET m == CHOOSE x \in S : \A y \in S \ {x} : LexLess(x, y)
         IN  <<m>> \o SortKeys(S \ {m})

RECURSIVE Concat(_)
Concat(ss) == IF ss = <<>> THEN <<>> ELSE Head(ss) \o Concat(Tail(ss))

----------------------------------------------------------------------------
(* Key encoder and cell codec *)

\* memcomparable encoding of one datum: flag byte, then the sign-flipped payload
SerializeDatum(d) ==
    IF d = None THEN <<0>> ELSE <<1, (d[1] + 128) % 256>>

\* descending order: every byte inverted
InvertBytes(b) == [i \in 1..Len(b) |-> 255 - b[i]]

\* serialize_pk(pk, sort_key_serializer)
SerializePk(pk) ==
    Concat([i \in 1..Len(pk) |->
        IF Orderings[i] = "Ascending" THEN SerializeDatum(pk[i])
        ELSE InvertBytes(SerializeDatum(pk[i]))])

\* serialize_cell_idx(cell_idx as u32): four bytes, big-endian
SerializeCellIdx(i) ==
    << (i \div 16777216) % 256, (i \div 65536) % 256, (i \div 256) % 256, i % 256 >>

\* faulty variant: every table under one and the same prefix
KeyspacePrefix_Shared(t) == <<101, 17>>

\* Keyspace::executor_root(store, id): the key prefix of a table's keyspace
KeyspacePrefix(t) == <<101, 17 * t>>

\* deserialize_datum_from: [ok, datum, rest]
DeserializeDatum(bytes) ==
    IF bytes = <<>> THEN [ok |-> FALSE, datum |-> None, rest |-> <<>>]
    ELSE IF bytes[1] = 0 THEN [ok |-> TRUE, datum |-> None, rest |-> Tail(bytes)]
    ELSE IF bytes[1] = 1 /\ Len(bytes) >= 2
         THEN [ok |-> TRUE,
               datum |-> Some(((bytes[2] + 128) % 256) - (IF bytes[2] < 128 THEN 256 ELSE 0)),
               rest |-> SubSeq(bytes, 3, Len(bytes))]
    ELSE [ok |-> FALSE, datum |-> None, rest |-> <<>>]

----------------------------------------------------------------------------
(* Results of calls *)

OkNone == [kind |-> "none", val |-> <<>>, msg |-> ""]
OkSome(d) == [kind |-> "some", val |-> d, msg |-> ""]
OkRow(r) == [kind |-> "row", val |-> r, msg |-> ""]
OkUnit == [kind |-> "ok", val |-> <<>>, msg |-> ""]
Err(m) == [kind |-> "err", val |-> <<>>, msg |-> m]
Panic(m) == [kind |-> "panic", val |-> <<>>, msg |-> m]

\* the error a failing state store operation reports
StoreError == Err("store")

----------------------------------------------------------------------------
(* The keyspace over the state store *)

\* Keyspace::get(key): the value under prefix ++ key, or none
KeyspaceHas(s, t, k) == (KeyspacePrefix(t) \o k) \in DOMAIN s
KeyspaceGet(s, t, k) == s[KeyspacePrefix(t) \o k]

\* Keyspace::iter(): the entries under the prefix, in ascending key order,
\* as they are when the scan is opened (the store hands out a snapshot: later
\* batches do not show through an iterator that is already open)
KeyspaceScan(s, t) ==
    LET ks == SortKeys({k \in DOMAIN s : IsPrefixOf(KeyspacePrefix(t), k)})
    IN  [i \in 1..Len(ks) |-> <<ks[i], s[ks[i]]>>]

\* the cell key the write path stores a cell under: pk bytes ++ column index
CellKey(pk, cell_idx) == SerializePk(pk) \o SerializeCellIdx(cell_idx)

----------------------------------------------------------------------------
(* ManagedMViewState: the write path *)

NoRow == <<>>
MutPut(row) == [op |-> "Put", row |-> row]
MutDelete == [op |-> "Delete", row |-> NoRow]
EmptyBuffer == [pk \in {} |-> MutDelete]
EmptyContent == [pk \in PkRows |-> NoRow]

\* faulty variant: a call on a pk that is already buffered is dropped
BufferInsert_KeepFirst(buf, pk, m) ==
    [p \in DOMAIN buf \cup {pk} |-> IF p \in DOMAIN buf THEN buf[p] ELSE m]

\* put / delete: insert into the buffer, replacing what is buffered for pk
BufferInsert(buf, pk, m) ==
    [p \in DOMAIN buf \cup {pk} |-> IF p = pk THEN m ELSE buf[p]]

\* faulty variant: a Delete removes the first cell only
FlushBatch_DeleteFirstCell(t, buf) ==
    { [key |-> KeyspacePrefix(t) \o CellKey(pk, i),
       del |-> buf[pk].op = "Delete",
       value |-> IF buf[pk].op = "Put" THEN SerializeDatum(buf[pk].row[i + 1]) ELSE <<>>]
      : pk \in DOMAIN buf, i \in 0..(SchemaLen - 1) }
    \ { [key |-> KeyspacePrefix(t) \o CellKey(pk, i), del |-> TRUE, value |-> <<>>]
        : pk \in DOMAIN buf, i \in 1..(SchemaLen - 1) }

\* faulty variant: no cell written for a null column of a Put
FlushBatch_SkipNullCells(t, buf) ==
    { [key |-> KeyspacePrefix(t) \o CellKey(pk, i),
       del |-> buf[pk].op = "Delete",
       value |-> IF buf[pk].op = "Put" THEN SerializeDatum(buf[pk].row[i + 1]) ELSE <<>>]
      : pk \in DOMAIN buf, i \in 0..(SchemaLen - 1) }
    \ { [key |-> KeyspacePrefix(t) \o CellKey(pk, i), del |-> FALSE,
         value |-> SerializeDatum(None)]
        : pk \in DOMAIN buf, i \in 0..(SchemaLen - 1) }

\* the batch one flush commits: SchemaLen cell writes per Put, SchemaLen cell
\* deletions per Delete
FlushBatch(t, buf) ==
    { [key |-> KeyspacePrefix(t) \o CellKey(pk, i),
       del |-> buf[pk].op = "Delete",
       value |-> IF buf[pk].op = "Put" THEN SerializeDatum(buf[pk].row[i + 1]) ELSE <<>>]
      : pk \in DOMAIN buf, i \in 0..(SchemaLen - 1) }

\* the state store applies one batch atomically
IngestBatch(s, batch) ==
    LET dels == {b.key : b \in {x \in batch : x.del}}
        puts == {b.key : b \in {x \in batch : ~x.del}}
    IN  [k \in (DOMAIN s \ dels) \cup puts |->
            IF k \in puts THEN (CHOOSE b \in batch : b.key = k /\ ~b.del).value
            ELSE s[k]]

\* history: the logical content after replaying the calls of a log in order
RECURSIVE Replay(_, _)
Replay(content, calls) ==
    IF calls = <<>> THEN content
    ELSE Replay([content EXCEPT ![Head(calls).pk] = Head(calls).row], Tail(calls))

----------------------------------------------------------------------------
(* MViewTable::get *)

\* faulty variant: the pk serialized without its orderings (every column ascending)
GetCellKey_NoOrderings(pk, cell_idx) ==
    Concat([i \in 1..Len(pk) |-> SerializeDatum(pk[i])]) \o SerializeCellIdx(cell_idx)

\* faulty variant: the first pk column serialized in every pk position
GetCellKey_FirstColumn(pk, cell_idx) ==
    SerializePk([i \in 1..Len(pk) |-> pk[1]]) \o SerializeCellIdx(cell_idx)

\* the key get reads: [serialize_pk(pk), serialize_cell_idx(cell_idx)].concat()
GetCellKey(pk, cell_idx) == SerializePk(pk) \o SerializeCellIdx(cell_idx)

\* faulty variant: a missing cell reported as an error
MViewTableGet_MissingIsError(s, t, pk, cell_idx, bld, storeOk) ==
    IF bld = "debug" /\ ~(cell_idx < SchemaLen)
    THEN [res |-> Panic("assertion failed: cell_idx < self.schema.len()"), reads |-> 0]
    ELSE IF ~storeOk
    THEN [res |-> Err("InternalError(store)"), reads |-> 1]
    ELSE IF ~KeyspaceHas(s, t, GetCellKey(pk, cell_idx))
    THEN [res |-> Err("not found"), reads |-> 1]
    ELSE IF ~(cell_idx < SchemaLen)
    THEN [res |-> Panic("index out of bounds"), reads |-> 1]
    ELSE LET d == DeserializeDatum(KeyspaceGet(s, t, GetCellKey(pk, cell_idx)))
         IN  [res |-> IF d.ok THEN OkSome(d.datum) ELSE Err("deserialize"),
              reads |-> 1]

MViewTableGet(s, t, pk, cell_idx, bld, storeOk) ==
    IF bld = "debug" /\ ~(cell_idx < SchemaLen)
    THEN [res |-> Panic("assertion failed: cell_idx < self.schema.len()"), reads |-> 0]
    ELSE IF ~storeOk
    THEN [res |-> Err("InternalError(store)"), reads |-> 1]
    ELSE IF ~KeyspaceHas(s, t, GetCellKey(pk, cell_idx))
    THEN [res |-> OkNone, reads |-> 1]
    ELSE IF ~(cell_idx < SchemaLen)
    THEN [res |-> Panic("index out of bounds"), reads |-> 1]
    ELSE LET d == DeserializeDatum(KeyspaceGet(s, t, GetCellKey(pk, cell_idx)))
         IN  [res |-> IF d.ok THEN OkSome(d.datum) ELSE Err("deserialize"),
              reads |-> 1]


----------------------------------------------------------------------------
(* MViewTableIter::next *)

\* RowDeserializer::deserialize(row_bytes): the columns decoded one after another
RECURSIVE DeserializeRow(_, _)
DeserializeRow(bytes, n) ==
    IF n = 0 THEN [ok |-> TRUE, row |-> <<>>]
    ELSE LET d == DeserializeDatum(bytes)
         IN  IF ~d.ok THEN [ok |-> FALSE, row |-> <<>>]
             ELSE LET r == DeserializeRow(d.rest, n - 1)
                  IN  [ok |-> r.ok, row |-> IF r.ok THEN <<d.datum>> \o r.row ELSE <<>>]

\* faulty variant: the width of the column index left out of the check
KeyMalformed_NoSuffix(prefix, key) == Len(key) < Len(prefix)

\* key.len() < self.prefix.len() + 4
KeyMalformed(prefix, key) == Len(key) < Len(prefix) + 4

\* &key[self.prefix.len()..key.len() - 4]
CurPkBuf(prefix, key) == SubSeq(key, Len(prefix) + 1, Len(key) - 4)

\* faulty variant: the pk comparison left out
PkChanged_Never(restored, pk_buf, cur_pk_buf) == FALSE

\* restored != 0 && pk_buf != cur_pk_buf: the key space moved on to another pk
PkChanged(restored, pk_buf, cur_pk_buf) == restored # 0 /\ pk_buf # cur_pk_buf

\* faulty variant: the row taken as complete one cell early
RowComplete_OneShort(restored) == restored = SchemaLen - 1

\* restored == self.schema.len()
RowComplete(restored) == restored = SchemaLen

\* faulty variant: the end of the scan reported as end-of-sequence whatever
\* has been accumulated
EndOfScan_AlwaysNone(restored) == OkNone

\* None if restored == 0 => Ok(None); None => Err("incomplete item")
EndOfScan(restored) == IF restored = 0 THEN OkNone ELSE Err("incomplete item")

\* the loop of next(): pulls entries off inner until a row is complete, the
\* scan ends or an error is found. failAt = k > 0: the k-th pull of this call
\* fails in the store.
RECURSIVE NextLoop(_, _, _, _, _, _, _)
NextLoop(prefix, inner, pk_buf, restored, row_bytes, failAt, pulls) ==
    IF failAt = pulls + 1
    THEN [res |-> StoreError, inner |-> inner, pk_buf |-> pk_buf,
          pulls |-> pulls + 1, cells |-> restored]
    ELSE IF inner = <<>>
    THEN [res |-> EndOfScan(restored),
          inner |-> inner, pk_buf |-> pk_buf, pulls |-> pulls + 1, cells |-> restored]
    ELSE LET key == Head(inner)[1]
             value == Head(inner)[2]
             rest == Tail(inner)
         IN  IF KeyMalformed(prefix, key)
             THEN [res |-> Err("corrupted key"), inner |-> rest, pk_buf |-> pk_buf,
                   pulls |-> pulls + 1, cells |-> restored]
             ELSE IF PkChanged(restored, pk_buf, CurPkBuf(prefix, key))
             THEN [res |-> Err("incomplete item"), inner |-> rest, pk_buf |-> pk_buf,
                   pulls |-> pulls + 1, cells |-> restored]
             ELSE LET pkb == IF restored = 0 THEN CurPkBuf(prefix, key) ELSE pk_buf
                      bytes == row_bytes \o value
                  IN  IF RowComplete(restored + 1)
                      THEN LET r == DeserializeRow(bytes, SchemaLen)
                           IN  [res |-> IF r.ok THEN OkRow(r.row) ELSE Err("deserialize"),
                                inner |-> rest, pk_buf |-> pkb,
                                pulls |-> pulls + 1, cells |-> restored + 1]
                      ELSE NextLoop(prefix, rest, pkb, restored + 1, bytes, failAt, pulls + 1)

\* faulty variant: the underlying iterator is not advanced by the call
MViewTableIterNext_Rewind(prefix, inner, failAt) ==
    [NextLoop(prefix, inner, <<>>, 0, <<>>, failAt, 0) EXCEPT !.inner = inner]

MViewTableIterNext(prefix, inner, failAt) ==
    NextLoop(prefix, inner, <<>>, 0, <<>>, failAt, 0)

IsCorruption(res) ==
    res.kind = "err" /\ res.msg \in {"corrupted key", "incomplete item"}

----------------------------------------------------------------------------
(* State *)

NoIter == [open |-> FALSE, t |-> 0, prefix |-> <<>>, inner |-> <<>>, openedAt |-> 0,
           corrupt |-> FALSE, storeErr |-> FALSE, ended |-> FALSE, yielded |-> <<>>]
NoCall == [op |-> "none"]
\* no aggregator built: the table specifications leave it alone
NoAgg == [fractions |-> None, data |-> <<>>, fed |-> <<>>]

Init ==
    /\ store = [k \in {} |-> <<>>]
    /\ mem_table = [t \in Tables |-> EmptyBuffer]
    /\ log = [t \in Tables |-> <<>>]
    /\ versions = [t \in Tables |-> <<EmptyContent>>]
    /\ nops = 0
    /\ iters = [c \in IterIds |-> NoIter]
    /\ last = NoCall
    /\ agg = NoAgg

\* faulty variant: put writes the row's cells through to the keyspace at once
Put_WriteThrough(t, pk, row) ==
    /\ nops < MaxOps
    /\ mem_table' = [mem_table EXCEPT ![t] = BufferInsert(@, pk, MutPut(row))]
    /\ store' = IngestBatch(store, FlushBatch(t, BufferInsert(EmptyBuffer, pk, MutPut(row))))
    /\ log' = [log EXCEPT ![t] = Append(@, [pk |-> pk, row |-> row])]
    /\ nops' = nops + 1
    /\ last' = [op |-> "put", t |-> t]
    /\ UNCHANGED agg
    /\ UNCHANGED <<versions, iters>>

\* ManagedMViewState::put(pk, value)
Put(t, pk, row) ==
    /\ nops < MaxOps
    /\ mem_table' = [mem_table EXCEPT ![t] = BufferInsert(@, pk, MutPut(row))]
    /\ log' = [log EXCEPT ![t] = Append(@, [pk |-> pk, row |-> row])]
    /\ nops' = nops + 1
    /\ last' = [op |-> "put", t |-> t]
    /\ UNCHANGED agg
    /\ UNCHANGED <<store, versions, iters>>

\* ManagedMViewState::delete(pk)
Delete(t, pk) ==
    /\ nops < MaxOps
    /\ mem_table' = [mem_table EXCEPT ![t] = BufferInsert(@, pk, MutDelete)]
    /\ log' = [log EXCEPT ![t] = Append(@, [pk |-> pk, row |-> NoRow])]
    /\ nops' = nops + 1
    /\ last' = [op |-> "delete", t |-> t]
    /\ UNCHANGED agg
    /\ UNCHANGED <<store, versions, iters>>

\* the epoch the executor passes to a flush: the number of batches committed so far
NextEpoch == Len(versions[1]) + Len(versions[2]) - 2

\* ManagedMViewState::flush(epoch), the batch commit succeeding
Flush(t) ==
    /\ Len(versions[t]) <= MaxFlushes
    /\ store' = IngestBatch(store, FlushBatch(t, mem_table[t]))
    /\ mem_table' = [mem_table EXCEPT ![t] = EmptyBuffer]
    /\ versions' = [versions EXCEPT ![t] = Append(@, Replay(@[Len(@)], log[t]))]
    /\ log' = [log EXCEPT ![t] = <<>>]
    /\ last' = [op |-> "flush", t |-> t, res |-> OkUnit, window |-> log[t],
                epoch |-> NextEpoch,
                batches |-> <<[epoch |-> NextEpoch, ops |-> FlushBatch(t, mem_table[t])]>>]
    /\ UNCHANGED agg
    /\ UNCHANGED <<nops, iters>>

\* ManagedMViewState::flush(epoch), the batch commit failing: the call returns
\* the store's error; the store has applied the whole batch or nothing of it;
\* the buffer is cleared on success only
FlushFail(t) ==
    /\ Len(versions[t]) <= MaxFlushes
    /\ \E applied \in BOOLEAN :
          /\ store' = IF applied THEN IngestBatch(store, FlushBatch(t, mem_table[t])) ELSE store
          /\ versions' = IF applied
                         THEN [versions EXCEPT ![t] = Append(@, Replay(@[Len(@)], log[t]))]
                         ELSE versions
    /\ last' = [op |-> "flush", t |-> t, res |-> StoreError, window |-> log[t],
                epoch |-> NextEpoch,
                batches |-> <<[epoch |-> NextEpoch, ops |-> FlushBatch(t, mem_table[t])]>>]
    /\ UNCHANGED agg
    /\ UNCHANGED <<mem_table, log, nops, iters>>

\* MViewTable::get(pk, cell_idx)
Get(t, pk, cell_idx, bld, storeOk) ==
    /\ last' = [op |-> "get", t |-> t, pk |-> pk, cell_idx |-> cell_idx, bld |-> bld,
                storeOk |-> storeOk,
                out |-> MViewTableGet(store, t, pk, cell_idx, bld, storeOk)]
    /\ UNCHANGED agg
    /\ UNCHANGED <<store, mem_table, log, versions, nops, iters>>

WriteNext(t) ==
    \/ \E pk \in PkRows, row \in Rows : Put(t, pk, row)
    \/ \E pk \in PkRows : Delete(t, pk)
    \/ Flush(t)

GetNext(t) ==
    \E pk \in PkRows, i \in 0..SchemaLen, bld \in {"debug", "release"} :
        Get(t, pk, i, bld, TRUE)

NextGet == WriteNext(1) \/ GetNext(1)

\* MViewTable::iter(): a cursor over the keyspace's entries
IterOpen(t, c) ==
    /\ iters' = [iters EXCEPT ![c] =
            [open |-> TRUE, t |-> t, prefix |-> KeyspacePrefix(t),
             inner |-> KeyspaceScan(store, t), openedAt |-> Len(versions[t]),
             corrupt |-> FALSE, storeErr |-> FALSE, ended |-> FALSE, yielded |-> <<>>]]
    /\ last' = [op |-> "iter", t |-> t, c |-> c]
    /\ UNCHANGED agg
    /\ UNCHANGED <<store, mem_table, log, versions, nops>>

\* faulty variant: the cursors of a table share one underlying iterator
IterNext_SharedInner(c, failAt) ==
    /\ iters[c].open
    /\ LET r == MViewTableIterNext(iters[c].prefix, iters[c].inner, failAt)
       IN  /\ iters' = [d \in DOMAIN iters |->
                   IF d = c
                   THEN [iters[c] EXCEPT !.inner = r.inner,
                             !.ended = @ \/ (r.res = OkNone),
                             !.yielded = IF r.res.kind = "row"
                                         THEN Append(@, [pk_buf |-> r.pk_buf,
                                                         row |-> r.res.val,
                                                         at |-> Len(versions[iters[c].t])])
                                         ELSE @]
                   ELSE IF iters[d].open THEN [iters[d] EXCEPT !.inner = r.inner]
                   ELSE iters[d]]
           /\ last' = [op |-> "next", c |-> c, res |-> r.res, pk_buf |-> r.pk_buf,
                       pulls |-> r.pulls, cells |-> r.cells, failAt |-> failAt,
                       before |-> iters[c]]
    /\ UNCHANGED agg
    /\ UNCHANGED <<store, mem_table, log, versions, nops>>

\* MViewTableIter::next()
IterNext(c, failAt) ==
    /\ iters[c].open
    /\ LET r == MViewTableIterNext(iters[c].prefix, iters[c].inner, failAt)
       IN  /\ iters' = [iters EXCEPT ![c] =
                   [@ EXCEPT !.inner = r.inner,
                             !.corrupt = @ \/ IsCorruption(r.res),
                             !.storeErr = @ \/ (r.res = StoreError),
                             !.ended = @ \/ (r.res = OkNone),
                             !.yielded = IF r.res.kind = "row"
                                         THEN Append(@, [pk_buf |-> r.pk_buf,
                                                         row |-> r.res.val,
                                                         at |-> Len(versions[iters[c].t])])
                                         ELSE @]]
           /\ last' = [op |-> "next", c |-> c, res |-> r.res, pk_buf |-> r.pk_buf,
                       pulls |-> r.pulls, cells |-> r.cells, failAt |-> failAt,
                       before |-> iters[c]]
    /\ UNCHANGED agg
    /\ UNCHANGED <<store, mem_table, log, versions, nops>>

ScanNext(t) ==
    \/ \E c \in IterIds : IterOpen(t, c)
    \/ \E c \in IterIds : IterNext(c, 0)

NextScan == WriteNext(1) \/ ScanNext(1)

SpecScan == Init /\ [][NextScan]_vars


SpecGet == Init /\ [][NextGet]_vars

----------------------------------------------------------------------------
(* Scans and gets over arbitrary keyspace content: cells written into the  *)
(* keyspace directly, complete rows or not, and keys too short to hold a   *)
(* column index.                                                           *)

RawPks == { <<Some(1), Some(1)>>, <<Some(2), Some(1)>> }
RawCellKeys ==
    { KeyspacePrefix(1) \o CellKey(pk, i) : pk \in RawPks, i \in 0..SchemaLen }
RawShortKeys == { KeyspacePrefix(1) \o <<0>>, KeyspacePrefix(1) \o <<1, 129, 255>> }
RawKeys == RawCellKeys \cup RawShortKeys
RawValue(k) ==
    IF k \in RawShortKeys \/ k[Len(k)] = 1 THEN SerializeDatum(None)
    ELSE SerializeDatum(Some(100 + k[Len(k)]))

InitRaw ==
    /\ \E S \in SUBSET RawKeys : store = [k \in S |-> RawValue(k)]
    /\ mem_table = [t \in Tables |-> EmptyBuffer]
    /\ log = [t \in Tables |-> <<>>]
    /\ versions = [t \in Tables |-> <<EmptyContent>>]
    /\ nops = 0
    /\ iters = [c \in IterIds |-> NoIter]
    /\ last = NoCall
    /\ agg = NoAgg

NextRaw == ScanNext(1) \/ GetNext(1)

SpecRaw == InitRaw /\ [][NextRaw]_vars

----------------------------------------------------------------------------
(* Two tables on distinct keyspace prefixes over one state store, each with *)
(* its own writer, and a cursor over either of them.                       *)

\* a writer that works on one pk, with one row
OnePk == <<Some(1), Some(1)>>
OneRow == <<None, Some(-1), Some(2)>>
WriteOnePk(t) ==
    \/ Put(t, OnePk, OneRow)
    \/ Delete(t, OnePk)
    \/ Flush(t)

NextMulti ==
    \/ WriteNext(1)
    \/ WriteOnePk(2)

SpecMulti == Init /\ [][NextMulti]_vars

----------------------------------------------------------------------------
(* Readers alone: a table holding the rows one flush committed, a writer   *)
(* whose buffer may hold a put not flushed yet, two cursors and get.       *)

CursorIds == {1, 2}

\* the pks of the committed rows: both signs, equal and different first columns
OrderPks == { <<Some(-1), Some(1)>>, <<Some(1), Some(1)>>,
              <<Some(1), Some(2)>>, <<Some(2), Some(1)>> }

\* the buffers a writer can hold: any of the pks put, each with the row that
\* carries its pk in columns 0 and 1
PutBuffers(pks) ==
    { [pk \in S |-> MutPut(<<pk[1], pk[2], Some(111)>>)] : S \in SUBSET pks }

InitCursors ==
    /\ \E buf \in PutBuffers(OrderPks) :
          store = IngestBatch([k \in {} |-> <<>>], FlushBatch(1, buf))
    /\ \E buf \in {EmptyBuffer, BufferInsert(EmptyBuffer, <<Some(1), Some(1)>>, MutDelete)} :
          mem_table = [t \in Tables |-> IF t = 1 THEN buf ELSE EmptyBuffer]
    /\ log = [t \in Tables |-> <<>>]
    /\ versions = [t \in Tables |-> <<EmptyContent>>]
    /\ nops = 0
    /\ iters = [c \in CursorIds |-> NoIter]
    /\ last = NoCall
    /\ agg = NoAgg

NextCursors ==
    \/ \E c \in CursorIds : IterOpen(1, c)
    \/ \E c \in CursorIds : IterNext(c, 0)
    \/ GetNext(1)

SpecCursors == InitCursors /\ [][NextCursors]_vars

----------------------------------------------------------------------------
(* The state store failing: a point read, a pull of the scan or the commit *)
(* of a batch returns an error.                                            *)

NextFail ==
    \/ WriteOnePk(1)
    \/ FlushFail(1)
    \/ \E i \in Columns : Get(1, OnePk, i, "release", FALSE)
    \/ \E c \in IterIds : IterOpen(1, c)
    \/ \E c \in IterIds, k \in 0..SchemaLen : IterNext(c, k)

SpecFail == Init /\ [][NextFail]_vars

----------------------------------------------------------------------------
(* One scan driven to its end: over arbitrary keyspace content that nobody *)
(* changes, a cursor is opened once and its caller keeps calling next().   *)

\* the keys the content is drawn from: the cells of two pks and a short key
\* that sorts between them
DriveKeys ==
    { KeyspacePrefix(1) \o CellKey(pk, i) : pk \in RawPks, i \in Columns }
    \cup { KeyspacePrefix(1) \o <<1, 129, 255>> }

InitDrive ==
    /\ \E S \in SUBSET DriveKeys : store = [k \in S |-> RawValue(k)]
    /\ mem_table = [t \in Tables |-> EmptyBuffer]
    /\ log = [t \in Tables |-> <<>>]
    /\ versions = [t \in Tables |-> <<EmptyContent>>]
    /\ nops = 0
    /\ iters = [c \in IterIds |-> NoIter]
    /\ last = NoCall
    /\ agg = NoAgg

IterOpenOnce(t, c) == ~iters[c].open /\ IterOpen(t, c)

NextDrive ==
    \/ \E c \in IterIds : IterOpenOnce(1, c)
    \/ \E c \in IterIds : IterNext(c, 0)

\* the caller of a scan calls next() again as long as that tells it anything new
SpecDrive ==
    InitDrive /\ [][NextDrive]_vars /\ WF_vars(\E c \in IterIds : IterNext(c, 0))

----------------------------------------------------------------------------
(* Properties *)


\* the logical content of table t after its most recent successful flush
Content(t) == versions[t][Len(versions[t])]
PrevContent(t) == versions[t][Len(versions[t]) - 1]

\* what get returns on the current keyspace when the point read succeeds
GetRes(t, pk, i, bld) == MViewTableGet(store, t, pk, i, bld, TRUE).res

\* a cursor driven until it stops yielding rows
RECURSIVE ScanAll(_, _)
ScanAll(prefix, inner) ==
    LET r == MViewTableIterNext(prefix, inner, 0)
    IN  <<[pk_buf |-> r.pk_buf, res |-> r.res]>>
        \o (IF r.res.kind = "row" THEN ScanAll(prefix, r.inner) ELSE <<>>)
FullScan(t) == ScanAll(KeyspacePrefix(t), KeyspaceScan(store, t))

\* the last call on pk in a sequence of put/delete calls
HasCall(calls, pk) == \E j \in 1..Len(calls) : calls[j].pk = pk
LastCallRow(calls, pk) ==
    calls[CHOOSE j \in 1..Len(calls) :
            calls[j].pk = pk /\ \A k \in (j + 1)..Len(calls) : calls[k].pk # pk].row

\* the cell keys of pk present in table t's keyspace, as key suffixes
DecodeCellIdx(b) == ((b[1] * 256 + b[2]) * 256 + b[3]) * 256 + b[4]
TableKeys(t) == {k \in DOMAIN store : IsPrefixOf(KeyspacePrefix(t), k)}
PkPart(t, k) == SubSeq(k, Len(KeyspacePrefix(t)) + 1, Len(k) - 4)
IdxPart(k) == DecodeCellIdx(SubSeq(k, Len(k) - 3, Len(k)))
WellFormed(t, k) == Len(k) >= Len(KeyspacePrefix(t)) + 4
CellsOf(t, pk) ==
    {k \in TableKeys(t) : WellFormed(t, k) /\ PkPart(t, k) = SerializePk(pk)}

\* C1: write/read consistency. Whenever the most recent flushed mutation of
\* pk is put(pk, row), get(pk, i) returns Some(row[i]) for every column i.
C1_WriteReadConsistency ==
    \A t \in Tables, pk \in PkRows :
        Content(t)[pk] # NoRow =>
            \A i \in Columns, bld \in Builds :
                GetRes(t, pk, i, bld) = OkSome(Content(t)[pk][i + 1])

C1_Witness ==
    /\ last.op = "get"
    /\ last.pk = <<Some(1), Some(2)>>
    /\ last.cell_idx = 2
    /\ Content(last.t)[last.pk] = <<Some(1), Some(11), Some(111)>>
    /\ last.out.res = OkSome(Some(111))

\* the rows a scan of a table with this logical content has to yield
ExpectedScan(content) ==
    { <<SerializePk(pk), content[pk]>> : pk \in {p \in PkRows : content[p] # NoRow} }
YieldedSet(it) == { <<it.yielded[j].pk_buf, it.yielded[j].row>> : j \in 1..Len(it.yielded) }

\* C2: scan completeness. A cursor yields only rows whose most recent flushed
\* mutation (at the time it was opened) is a Put, with the values put, each
\* at most once; when it reports end-of-sequence it has yielded all of them;
\* it never reports corruption or any other error.
C2_ScanCompleteness ==
    \A c \in IterIds :
        iters[c].open =>
            LET it == iters[c]
                exp == ExpectedScan(versions[it.t][it.openedAt])
            IN  /\ ~it.corrupt
                /\ YieldedSet(it) \subseteq exp
                /\ Cardinality(YieldedSet(it)) = Len(it.yielded)
                /\ \A j, k \in 1..Len(it.yielded) :
                        j # k => it.yielded[j].pk_buf # it.yielded[k].pk_buf
                /\ it.ended => YieldedSet(it) = exp
                /\ (last.op = "next" /\ last.c = c) => last.res.kind \in {"row", "none"}

C2_Witness ==
    /\ last.op = "next" /\ last.res = OkNone
    /\ LET it == iters[last.c]
       IN  /\ it.openedAt = 3 /\ Len(versions[it.t]) = 3 /\ log[it.t] = <<>>
           /\ Len(it.yielded) = 1
           /\ \E pk \in PkRows : versions[it.t][2][pk] # NoRow /\ Content(it.t)[pk] = NoRow

\* the logical row of pk after the flush recorded in last, judged by the
\* last call on pk in the flushed window alone
ExpectedAfterFlush(pk) ==
    IF HasCall(last.window, pk) THEN LastCallRow(last.window, pk)
    ELSE PrevContent(last.t)[pk]

\* C3: last-write-wins within one buffering window. The buffer holds, for each
\* pk, exactly the last call issued on it since the last flush; right after a
\* flush, get and a full scan see each pk as if only the last call on it in
\* the flushed window had been issued.
C3_LastWriteWins ==
    /\ \A t \in Tables :
        /\ DOMAIN mem_table[t] = {pk \in PkRows : HasCall(log[t], pk)}
        /\ \A pk \in DOMAIN mem_table[t] :
              LET row == LastCallRow(log[t], pk)
              IN  mem_table[t][pk] = IF row = NoRow THEN MutDelete ELSE MutPut(row)
    /\ last.op = "flush" =>
          \A pk \in PkRows :
              LET e == ExpectedAfterFlush(pk)
                  scan == FullScan(last.t)
              IN  /\ e = NoRow =>
                        /\ CellsOf(last.t, pk) = {}
                        /\ \A i \in Columns, bld \in Builds : GetRes(last.t, pk, i, bld) = OkNone
                        /\ \A j \in 1..Len(scan) :
                              scan[j].res.kind = "row" => scan[j].pk_buf # SerializePk(pk)
                  /\ e # NoRow =>
                        /\ Cardinality(CellsOf(last.t, pk)) = SchemaLen
                        /\ \A i \in Columns, bld \in Builds :
                              GetRes(last.t, pk, i, bld) = OkSome(e[i + 1])
                        /\ \E j \in 1..Len(scan) :
                              scan[j] = [pk_buf |-> SerializePk(pk), res |-> OkRow(e)]

C3_Witness ==
    /\ last.op = "flush"
    /\ Len(last.window) = 3
    /\ last.window[1].pk = last.window[2].pk /\ last.window[2].pk = last.window[3].pk
    /\ last.window[1].row # NoRow /\ last.window[2].row = NoRow
    /\ last.window[3].row # NoRow /\ last.window[3].row # last.window[1].row

\* C4: delete consistency across flushes. A pk that held a row after one
\* flush and whose delete was committed by the next flush has no cell key left
\* in the keyspace, and get returns None for every column.
C4_DeleteConsistency ==
    \A t \in Tables, pk \in PkRows :
        (Len(versions[t]) >= 2 /\ PrevContent(t)[pk] # NoRow /\ Content(t)[pk] = NoRow) =>
            /\ \A i \in Columns, bld \in Builds : GetRes(t, pk, i, bld) = OkNone
            /\ CellsOf(t, pk) = {}

C4_Witness ==
    /\ last.op = "get" /\ last.out.res = OkNone /\ last.cell_idx < SchemaLen
    /\ Len(versions[last.t]) = 3 /\ log[last.t] = <<>>
    /\ PrevContent(last.t)[last.pk] # NoRow /\ Content(last.t)[last.pk] = NoRow
    /\ \E pk \in PkRows : Content(last.t)[pk] # NoRow

\* C5: all-or-nothing rows. In every keyspace state the writer reaches, every
\* key of a table is a cell key of some pk, and each pk has either no cell key
\* or exactly SchemaLen of them, one per column index 0..SchemaLen-1.
C5_AllOrNothing ==
    \A t \in Tables :
        /\ \A k \in TableKeys(t) :
              WellFormed(t, k) /\ \E pk \in PkRows : PkPart(t, k) = SerializePk(pk)
        /\ \A pk \in PkRows :
              \/ CellsOf(t, pk) = {}
              \/ /\ Cardinality(CellsOf(t, pk)) = SchemaLen
                 /\ {IdxPart(k) : k \in CellsOf(t, pk)} = Columns

C5_Witness ==
    /\ last.op = "flush" /\ Len(versions[last.t]) = 3
    /\ \E pk \in PkRows :
          /\ PrevContent(last.t)[pk] # NoRow /\ Content(last.t)[pk] = NoRow
          /\ CellsOf(last.t, pk) = {}
    /\ \E pk \in PkRows : Cardinality(CellsOf(last.t, pk)) = SchemaLen

\* the entries of a scan grouped as maximal runs of well-formed keys with one pk part
RunLen(t, e) ==
    IF e = <<>> \/ ~WellFormed(t, e[1][1]) THEN 0
    ELSE CHOOSE n \in 1..Len(e) :
            /\ \A j \in 1..n : WellFormed(t, e[j][1]) /\ PkPart(t, e[j][1]) = PkPart(t, e[1][1])
            /\ n < Len(e) =>
                  ~(WellFormed(t, e[n + 1][1]) /\ PkPart(t, e[n + 1][1]) = PkPart(t, e[1][1]))
\* the first m entries of e are complete groups: runs of exactly SchemaLen cells
RECURSIVE AllComplete(_, _, _)
AllComplete(t, e, m) ==
    IF m = 0 THEN TRUE
    ELSE /\ RunLen(t, e) = SchemaLen
         /\ m >= SchemaLen
         /\ AllComplete(t, SubSeq(e, SchemaLen + 1, Len(e)), m - SchemaLen)

\* the call recorded in last reached a pk group of 1..SchemaLen-1 cells, every
\* earlier group being complete, and the group ends with the scan or with a
\* well-formed key of another pk
ReachedIncompleteGroup ==
    /\ last.op = "next"
    /\ LET b == last.before
           full == KeyspaceScan(store, b.t)
           k == RunLen(b.t, b.inner)
       IN  /\ ~b.storeErr
           /\ AllComplete(b.t, full, Len(full) - Len(b.inner))
           /\ 1 <= k /\ k < SchemaLen
           /\ Len(b.inner) > k => WellFormed(b.t, b.inner[k + 1][1])

\* C6: incomplete-item detection. The next() call that reaches a pk group of
\* at least one but fewer than SchemaLen cells (all earlier groups complete)
\* returns the "incomplete item" error, whether the group is followed by a
\* cell of another pk or by the end of the scan; and every row next() returns
\* was assembled from exactly SchemaLen cells.
C6_IncompleteItemDetected ==
    /\ ReachedIncompleteGroup => last.res = Err("incomplete item")
    /\ (last.op = "next" /\ last.res.kind = "row") =>
          (last.cells = SchemaLen /\ last.pulls = SchemaLen)

C6_Witness ==
    /\ ReachedIncompleteGroup
    /\ Len(last.before.inner) > RunLen(last.before.t, last.before.inner)
    /\ last.res = Err("incomplete item")

\* C7: a corruption error is fatal to the scan: a cursor that has returned a
\* corruption error never yields a row from a later next() call.
C7_CorruptionIsFatal ==
    ~(last.op = "next" /\ last.before.corrupt /\ last.res.kind = "row")

C9_OutOfRangeRejected ==
    (last.op = "get" /\ last.cell_idx >= SchemaLen) =>
        (last.out.res.kind = "err" /\ last.out.reads = 0)

\* C10: absence is success. get of a valid column of a pk that has no cell in
\* the keyspace returns None; the first next() of a cursor over a keyspace
\* with no entry returns end-of-sequence.
C10_AbsenceIsSuccess ==
    /\ \A t \in Tables, pk \in PkRows :
          CellsOf(t, pk) = {} =>
              \A i \in Columns, bld \in Builds : GetRes(t, pk, i, bld) = OkNone
    /\ (last.op = "get" /\ last.cell_idx < SchemaLen /\ CellsOf(last.t, last.pk) = {}) =>
          last.out.res = OkNone
    /\ (last.op = "next" /\ TableKeys(last.before.t) = {} /\ ~last.before.ended) =>
          last.res = OkNone

C10_Witness ==
    /\ last.op = "get" /\ last.cell_idx < SchemaLen /\ last.out.res = OkNone
    /\ TableKeys(last.t) = {}
    /\ \E c \in IterIds : iters[c].open /\ iters[c].t = last.t /\ iters[c].ended

WriteOps == {"put", "delete", "flush"}

\* the rows a full scan of table t yields over store s, and whether it ends cleanly
ScanOf(s, t) == ScanAll(KeyspacePrefix(t), KeyspaceScan(s, t))
ScanRowsOf(s, t) ==
    LET scan == ScanOf(s, t)
    IN  { <<scan[j].pk_buf, scan[j].res.val>> : j \in {i \in 1..Len(scan) : scan[i].res.kind = "row"} }
ScanRows(t) == ScanRowsOf(store, t)
ScanEndsClean(s, t) == LET scan == ScanOf(s, t) IN scan[Len(scan)].res = OkNone

\* what the readers of table u observe over store s: its keys, every get, its full scan
Observed(s, u) ==
    [keys |-> {k \in DOMAIN s : IsPrefixOf(KeyspacePrefix(u), k)},
     gets |-> [pk \in PkRows |->
                 [i \in Columns |-> MViewTableGet(s, u, pk, i, "release", TRUE).res]],
     scan |-> ScanOf(s, u)]

\* C11: multi-table isolation. A put, delete or flush on one table leaves the
\* keys, every get result and the full scan of the other table unchanged (a
\* step that leaves the store as it is leaves them unchanged at once), and
\* after every step that commits, the scan of each table yields exactly the
\* rows committed through that table's own writer.
C11_MultiTableIsolation ==
    [][ /\ \A t \in Tables :
              (last'.op \in WriteOps /\ last'.t = t) =>
                  \A u \in Tables \ {t} :
                      store' = store \/ Observed(store', u) = Observed(store, u)
        /\ (store' # store \/ versions' # versions) =>
              \A t \in Tables :
                  /\ ScanEndsClean(store', t)
                  /\ ScanRowsOf(store', t) = ExpectedScan(versions'[t][Len(versions'[t])]) ]_vars

C11_Witness ==
    /\ last.op = "flush" /\ last.t = 1 /\ Len(versions[1]) = 3
    /\ \E pk \in PkRows :
          /\ PrevContent(1)[pk] # NoRow /\ Content(1)[pk] = NoRow
          /\ Content(2)[pk] # NoRow
          /\ ScanRows(2) = {<<SerializePk(pk), Content(2)[pk]>>}
          /\ ScanRows(1) = {}

\* the declared pk order: ascending on the first pk column, descending on the
\* second among equal first columns
PkLess(a, b) ==
    \/ a[1][1] < b[1][1]
    \/ (a[1][1] = b[1][1] /\ a[2][1] > b[2][1])
PkOfBuf(pk_buf) == CHOOSE pk \in OrderPks : SerializePk(pk) = pk_buf

\* the entries of a scan come in groups of SchemaLen cells of one pk, column
\* index 0..SchemaLen-1 in this order, no pk in two groups
CellsContiguous(t, e) ==
    /\ Len(e) % SchemaLen = 0
    /\ \A g \in 0..((Len(e) \div SchemaLen) - 1), i \in Columns :
          /\ PkPart(t, e[SchemaLen * g + i + 1][1]) = PkPart(t, e[SchemaLen * g + 1][1])
          /\ IdxPart(e[SchemaLen * g + i + 1][1]) = i
    /\ \A g, h \in 0..((Len(e) \div SchemaLen) - 1) :
          g < h => LexLess(PkPart(t, e[SchemaLen * g + 1][1]), PkPart(t, e[SchemaLen * h + 1][1]))

\* C12: scan order. The rows a cursor yields come in ascending order of their
\* stored pk bytes, which is the declared pk order (ascending on the first pk
\* column, descending on the second); the byte order of two encoded pks is the
\* declared order of the pks; the cells of one pk are contiguous in the scan,
\* by increasing column index.
C12_ScanOrder ==
    /\ \A a, b \in OrderPks : LexLess(SerializePk(a), SerializePk(b)) <=> PkLess(a, b)
    /\ CellsContiguous(1, KeyspaceScan(store, 1))
    /\ \A c \in DOMAIN iters :
          iters[c].open =>
              \A j \in 1..(Len(iters[c].yielded) - 1) :
                  /\ LexLess(iters[c].yielded[j].pk_buf, iters[c].yielded[j + 1].pk_buf)
                  /\ PkLess(PkOfBuf(iters[c].yielded[j].pk_buf),
                            PkOfBuf(iters[c].yielded[j + 1].pk_buf))

C12_Witness ==
    /\ last.op = "next" /\ last.res.kind = "row"
    /\ LET y == iters[last.c].yielded
       IN  /\ Len(y) = 4
           /\ y[1].row[1] = Some(-1)
           /\ y[2].row = <<Some(1), Some(2), Some(111)>>
           /\ y[3].row = <<Some(1), Some(1), Some(111)>>
           /\ y[4].row[1] = Some(2)

\* the failing pull of the next() call recorded in last is reached: the call
\* does not return before it when no pull fails
FailingPullReached ==
    /\ last.op = "next" /\ last.failAt > 0
    /\ MViewTableIterNext(last.before.prefix, last.before.inner, 0).pulls >= last.failAt

\* C13: store failures are propagated unchanged and not retried. A get whose
\* point read fails, a next() whose pull fails and a flush whose commit fails
\* return the store's error itself, having issued the failing operation once,
\* and no value or row.
C13_StoreFailurePropagated ==
    /\ (last.op = "get" /\ ~last.storeOk) =>
          (last.out.res = StoreError /\ last.out.reads = 1)
    /\ FailingPullReached =>
          (last.res = StoreError /\ last.pulls = last.failAt)
    /\ (last.op = "flush" /\ last.res # OkUnit) =>
          (last.res = StoreError /\ Len(last.batches) = 1)

\* the scan and flush parts alone: a failing pull and a failing commit return the store's error
ScanAndFlushPropagate ==
    /\ FailingPullReached =>
          (last.res = StoreError /\ last.pulls = last.failAt)
    /\ (last.op = "flush" /\ last.res # OkUnit) =>
          (last.res = StoreError /\ Len(last.batches) = 1)

\* the values of the first n entries of a scan, one after another
ValuesOf(e, n) == Concat([j \in 1..n |-> e[j][2]])

\* C14: malformed-key detection. Whenever a next() call pulls an entry whose
\* key is shorter than prefix + 4 bytes, that pull is its last and the call
\* returns the "corrupted key" error, however many cells it has accumulated;
\* a row is built from the values of well-formed entries only.
C14_MalformedKeyDetected ==
    last.op = "next" =>
        LET e == last.before.inner
            t == last.before.t
        IN  /\ \A j \in 1..Min(last.pulls, Len(e)) :
                  ~WellFormed(t, e[j][1]) =>
                      /\ last.res = Err("corrupted key")
                      /\ j = last.pulls
                      /\ last.cells = j - 1
            /\ last.res.kind = "row" =>
                  /\ \A j \in 1..SchemaLen : WellFormed(t, e[j][1])
                  /\ DeserializeRow(ValuesOf(e, SchemaLen), SchemaLen).row = last.res.val

C14_Witness ==
    /\ last.op = "next" /\ last.res = Err("corrupted key")
    /\ last.cells = 2 /\ last.pulls = 3
    /\ Len(last.before.yielded) = 0
    /\ PkPart(last.before.t, last.before.inner[1][1]) = SerializePk(<<Some(1), Some(1)>>)

\* C15: put and delete perform no I/O. A put or delete step leaves the store
\* as it is, and with it every get result and the full scan of the table; a
\* step that changes the store is a flush.
C15_PutDeleteNoIO ==
    [][ /\ last'.op \in {"put", "delete"} =>
              /\ store' = store
              /\ Observed(store', last'.t) = Observed(store, last'.t)
        /\ store' # store => last'.op = "flush" ]_vars

C15_Witness ==
    /\ last.op = "get"
    /\ HasCall(log[last.t], last.pk)
    /\ LastCallRow(log[last.t], last.pk) # NoRow
    /\ Content(last.t)[last.pk] # NoRow
    /\ LastCallRow(log[last.t], last.pk)[last.cell_idx + 1] # Content(last.t)[last.pk][last.cell_idx + 1]
    /\ last.out.res = OkSome(Content(last.t)[last.pk][last.cell_idx + 1])

\* the cell operations one flush of table t has to commit for the calls of a
\* buffering window: per pk, by its last call, SchemaLen writes or SchemaLen deletions
ExpectedOps(t, window) ==
    { [key |-> KeyspacePrefix(t) \o SerializePk(pk) \o SerializeCellIdx(i),
       del |-> LastCallRow(window, pk) = NoRow,
       value |-> IF LastCallRow(window, pk) = NoRow THEN <<>>
                 ELSE SerializeDatum(LastCallRow(window, pk)[i + 1])]
      : pk \in {p \in PkRows : HasCall(window, p)}, i \in Columns }

\* store s2 is store s1 with exactly the operations ops applied
AppliedExactly(s1, s2, ops) ==
    /\ \A o \in ops : IF o.del THEN o.key \notin DOMAIN s2
                      ELSE o.key \in DOMAIN s2 /\ s2[o.key] = o.value
    /\ \A k \in (DOMAIN s1 \cup DOMAIN s2) \ {o.key : o \in ops} :
          k \in DOMAIN s1 /\ k \in DOMAIN s2 /\ s1[k] = s2[k]

\* C16: flush batch shape. A successful flush commits one batch, tagged with
\* the epoch of the call, holding SchemaLen cell writes per buffered Put and
\* SchemaLen cell deletions per buffered Delete under the pk's cell keys and
\* nothing else; the store changes by exactly these operations; the buffer is
\* empty afterwards, and a flush with nothing buffered leaves the store as it is.
C16_FlushBatchShape ==
    [][ (last'.op = "flush" /\ last'.res = OkUnit) =>
            /\ Len(last'.batches) = 1
            /\ last'.batches[1].epoch = last'.epoch
            /\ last'.batches[1].ops = ExpectedOps(last'.t, last'.window)
            /\ Cardinality(last'.batches[1].ops)
                  = SchemaLen * Cardinality({p \in PkRows : HasCall(last'.window, p)})
            /\ AppliedExactly(store, store', last'.batches[1].ops)
            /\ mem_table'[last'.t] = EmptyBuffer
            /\ (last'.window = <<>> => store' = store) ]_vars

C16_Witness ==
    /\ last.op = "flush" /\ last.res = OkUnit
    /\ Cardinality({o \in last.batches[1].ops : o.del}) = SchemaLen
    /\ Cardinality({o \in last.batches[1].ops : ~o.del}) = SchemaLen
    /\ \E o \in last.batches[1].ops : ~o.del /\ o.value = SerializeDatum(None)
    /\ last.t = 1 /\ Len(last.window) = 2
    /\ TableKeys(2) # {}

\* cursor it stands where a cursor run alone over store s stands after as many
\* next() calls: the same rows so far, the same entries still to come
RunsAlone(it, s) ==
    LET alone == ScanOf(s, it.t)
        full == KeyspaceScan(s, it.t)
        n == Len(it.yielded)
    IN  /\ n < Len(alone)
        /\ \A j \in 1..n :
              /\ alone[j].res = OkRow(it.yielded[j].row)
              /\ alone[j].pk_buf = it.yielded[j].pk_buf
        /\ it.inner = SubSeq(full, SchemaLen * n + 1, Len(full))
        /\ it.ended => (n = Len(alone) - 1 /\ alone[n + 1].res = OkNone)

\* C17: reads are pure and cursors independent. A get, iter or next() step
\* leaves the store and the write buffer as they are; a next() step leaves
\* every other cursor as it is; and after any interleaving each open cursor,
\* whenever a step moves it, has yielded what a cursor run alone from the start
\* of the key range yields.
C17_ReadsPureCursorsIndependent ==
    [][ /\ last'.op \in {"get", "iter", "next"} =>
              (store' = store /\ mem_table' = mem_table)
        /\ last'.op = "next" =>
              \A d \in DOMAIN iters \ {last'.c} : iters'[d] = iters[d]
        /\ \A c \in DOMAIN iters :
              (iters'[c] # iters[c] /\ iters'[c].open) => RunsAlone(iters'[c], store') ]_vars

C17_Witness ==
    /\ last.op = "next" /\ last.c = 2 /\ last.res.kind = "row"
    /\ iters[1].open /\ iters[2].open
    /\ Len(iters[1].yielded) = 3 /\ ~iters[1].ended
    /\ Len(iters[2].yielded) = 1
    /\ mem_table[1] # EmptyBuffer

\* C18: row grouping step. A next() call that returns a row has pulled exactly
\* SchemaLen entries, the first SchemaLen the cursor had still to come, all of
\* them cells under the pk prefix of the first; the row is decoded from the
\* values of these entries alone (nothing is carried over from an earlier
\* call), and the cursor goes on right after them.
C18_RowGroupingStep ==
    (last.op = "next" /\ last.res.kind = "row") =>
        LET e == last.before.inner
            t == last.before.t
        IN  /\ last.pulls = SchemaLen /\ last.cells = SchemaLen
            /\ Len(e) >= SchemaLen
            /\ last.pk_buf = PkPart(t, e[1][1])
            /\ \A j \in 1..SchemaLen :
                  WellFormed(t, e[j][1]) /\ PkPart(t, e[j][1]) = PkPart(t, e[1][1])
            /\ iters[last.c].inner = SubSeq(e, SchemaLen + 1, Len(e))
            /\ last.res.val = DeserializeRow(ValuesOf(e, SchemaLen), SchemaLen).row

C18_Witness ==
    /\ last.op = "next" /\ last.res.kind = "row"
    /\ Len(last.before.yielded) = 1
    /\ last.before.yielded[1].pk_buf # last.pk_buf
    /\ Len(iters[last.c].inner) = 1

\* C19: end-of-sequence on a row boundary, and stable. A next() call returns
\* end-of-sequence only when its first pull finds the underlying iterator
\* exhausted, with no cell collected; and every next() call on a cursor that
\* has returned end-of-sequence returns end-of-sequence again.
C19_EndOfSequenceStable ==
    /\ (last.op = "next" /\ last.res = OkNone) =>
          (last.before.inner = <<>> /\ last.cells = 0 /\ last.pulls = 1)
    /\ (last.op = "next" /\ last.before.ended) =>
          (last.res = OkNone /\ iters[last.c].yielded = last.before.yielded)

C19_Witness ==
    /\ last.op = "next" /\ last.before.ended /\ last.res = OkNone
    /\ Len(last.before.yielded) = 2
    /\ \E k \in TableKeys(1) : ~WellFormed(1, k)

\* get and a full scan agree over store s: each row the scan of table t yields
\* is stored under the pk bytes of a pk whose get returns Some of the row's
\* value for every column; each pk whose get returns Some for every column
\* has its row yielded by the scan
ScanGetAgree(s, t) ==
    LET scan == ScanOf(s, t)
    IN  /\ \A j \in 1..Len(scan) :
              scan[j].res.kind = "row" =>
                  \E pk \in PkRows :
                      /\ SerializePk(pk) = scan[j].pk_buf
                      /\ \A i \in Columns, bld \in Builds :
                            MViewTableGet(s, t, pk, i, bld, TRUE).res
                                = OkSome(scan[j].res.val[i + 1])
        /\ \A pk \in PkRows :
              (\A i \in Columns : MViewTableGet(s, t, pk, i, "release", TRUE).res.kind = "some") =>
                  \E j \in 1..Len(scan) :
                      /\ scan[j].res.kind = "row"
                      /\ scan[j].pk_buf = SerializePk(pk)

\* C20: scan/get agreement. get and a full scan agree in the initial keyspace
\* state and in the state after every step that changes the keyspace, hence in
\* every keyspace state the writer reaches.
C20_ScanGetAgreement ==
    /\ \A t \in Tables : ScanGetAgree(store, t)
    /\ [][ store' # store => \A t \in Tables : ScanGetAgree(store', t) ]_vars

C20_Witness ==
    /\ last.op = "next" /\ last.res.kind = "row"
    /\ LET it == iters[last.c]
       IN  /\ it.openedAt = Len(versions[it.t])
           /\ Len(it.yielded) = 2
           /\ it.yielded[1].row # it.yielded[2].row
           /\ \E pk \in PkRows :
                 /\ SerializePk(pk) = last.pk_buf
                 /\ \A i \in Columns :
                       GetRes(it.t, pk, i, "release") = OkSome(last.res.val[i + 1])

\* C21: for any keyspace content, every row next() returns is assembled from
\* cells whose column indices are 0, 1, .., SchemaLen-1 in this order; a group
\* of SchemaLen cells with a missing or out-of-range column index is not
\* yielded as a row.
C21_RowFromExactColumns ==
    (last.op = "next" /\ last.res.kind = "row") =>
        \A j \in 1..SchemaLen : IdxPart(last.before.inner[j][1]) = j - 1

\* the next() call recorded in last pulled at most SchemaLen times and let the
\* cursor go on right behind the entries it pulled
PullsBounded ==
    last.op = "next" =>
        LET e == last.before.inner
            k == Min(last.pulls, Len(e))
        IN  /\ 1 <= last.pulls /\ last.pulls <= SchemaLen
            /\ iters[last.c].inner = SubSeq(e, k + 1, Len(e))
            /\ last.res.kind = "row" => Len(iters[last.c].inner) < Len(e)

\* C22: scan termination. Every next() call pulls at most SchemaLen times and
\* never hands an entry out twice; a cursor whose caller keeps calling next()
\* eventually returns end-of-sequence or an error, and from some point on no
\* call returns a row.
C22_ScanTerminates ==
    /\ []PullsBounded
    /\ \A c \in IterIds :
          iters[c].open ~> (iters[c].ended \/ iters[c].corrupt)
    /\ <>[](\A c \in IterIds : iters[c].open => iters[c].inner = <<>>)

C22_Witness ==
    /\ last.op = "next" /\ last.res = OkNone /\ last.pulls = 1
    /\ iters[last.c].corrupt
    /\ Len(iters[last.c].yielded) = 2
    /\ Cardinality(TableKeys(1)) = 2 * SchemaLen + 1

----------------------------------------------------------------------------
(* PercentileDisc: the percentile_disc aggregator *)

\* f64 is modelled as a binary float with a significand of SignificandBits
\* bits (instead of 53) and results rounded to nearest, ties to even. A float
\* is held as the number of its units of 1/Unit.
SignificandBits == 4
Unit == 64

RECURSIVE Pow2(_)
Pow2(k) == IF k = 0 THEN 1 ELSE 2 * Pow2(k - 1)

\* the largest power of two that is at most x, for x >= 1
RECURSIVE Pow2Floor(_)
Pow2Floor(x) == IF x < 2 THEN 1 ELSE 2 * Pow2Floor(x \div 2)

\* the spacing of the floats around x (every multiple of the unit below
\* Pow2(SignificandBits) units is a float)
Ulp(x) ==
    LET u == Pow2Floor(x) \div Pow2(SignificandBits - 1)
    IN  IF u = 0 THEN 1 ELSE u

\* the float nearest to the exact value x, ties to the even significand
RoundF64(x) ==
    IF x = 0 THEN 0
    ELSE LET u == Ulp(x)
             q == x \div u
             r == x % u
         IN  IF 2 * r < u THEN q * u
             ELSE IF 2 * r > u THEN (q + 1) * u
             ELSE IF q % 2 = 0 THEN q * u ELSE (q + 1) * u

\* the direct argument of percentile_disc: the floats of [0, 1]
Fractions == { x \in 0..Unit : RoundF64(x) = x }
\* Option<f64>: a NULL literal builds the aggregator with no fraction
OptFractions == {None} \cup { Some(fr) : fr \in Fractions }

\* column 0 of an input row
AggDatums == { None, Some(10), Some(20) }
\* the visible rows of an input chunk, by their column 0
Chunks == UNION { [1..n -> AggDatums] : n \in 1..2 }

\* PercentileDisc::new; fed is history: every datum handed to add_datum since
\* the last reset
NewPercentileDisc(fractions) == [fractions |-> fractions, data |-> <<>>, fed |-> <<>>]

AddDatum(a, datum_ref) ==
    IF datum_ref # None
    THEN [a EXCEPT !.data = Append(@, datum_ref[1]), !.fed = Append(@, datum_ref)]
    ELSE [a EXCEPT !.fed = Append(@, datum_ref)]

\* for (_, row) in rows { self.add_datum(row.datum_at(0)) }
RECURSIVE AddRows(_, _)
AddRows(a, rows) ==
    IF rows = <<>> THEN a ELSE AddRows(AddDatum(a, Head(rows)), Tail(rows))

\* input.rows_in(range) for the range lo..hi (hi excluded)
RowsIn(input, lo, hi) == SubSeq(input, lo + 1, hi)

\* rn = fractions * self.data.len() as f64: the exact product, rounded
Rn(fractions, n) == RoundF64(fractions * n)

\* f64::ceil(rn) as usize
CeilRn(rn) == (rn + Unit - 1) \div Unit

\* get_output; data[i] of the code is a.data[i + 1] here
PercentileDiscGetOutput(a) ==
    IF a.fractions # None /\ a.data # <<>>
    THEN LET fractions == a.fractions[1]
             rn == Rn(fractions, Len(a.data))
         IN  IF fractions = 0
             THEN Some(a.data[0 + 1])
             ELSE Some(a.data[(CeilRn(rn) - 1) + 1])
    ELSE None

\* reset: self.data.clear()
PercentileDiscReset(a) == [a EXCEPT !.data = <<>>, !.fed = <<>>]

InitAgg ==
    /\ store = [k \in {} |-> <<>>]
    /\ mem_table = [t \in Tables |-> EmptyBuffer]
    /\ log = [t \in Tables |-> <<>>]
    /\ versions = [t \in Tables |-> <<EmptyContent>>]
    /\ nops = 0
    /\ iters = [c \in IterIds |-> NoIter]
    /\ last = NoCall
    /\ \E fractions \in OptFractions : agg = NewPercentileDisc(fractions)

Update(input) ==
    /\ Len(agg.fed) + Len(input) <= MaxData
    /\ agg' = AddRows(agg, input)
    /\ last' = [op |-> "update"]
    /\ UNCHANGED <<store, mem_table, log, versions, nops, iters>>

UpdateRange(input, lo, hi) ==
    /\ Len(agg.fed) + (hi - lo) <= MaxData
    /\ agg' = AddRows(agg, RowsIn(input, lo, hi))
    /\ last' = [op |-> "update_range"]
    /\ UNCHANGED <<store, mem_table, log, versions, nops, iters>>

GetOutput ==
    /\ last' = [op |-> "get_output", res |-> PercentileDiscGetOutput(agg), before |-> agg]
    /\ UNCHANGED <<store, mem_table, log, versions, nops, iters, agg>>

Output ==
    LET result == PercentileDiscGetOutput(agg)
    IN  /\ agg' = PercentileDiscReset(agg)
        /\ last' = [op |-> "output", res |-> result, before |-> agg]
        /\ UNCHANGED <<store, mem_table, log, versions, nops, iters>>

Reset ==
    /\ agg' = PercentileDiscReset(agg)
    /\ last' = [op |-> "reset"]
    /\ UNCHANGED <<store, mem_table, log, versions, nops, iters>>

NextAgg ==
    \/ \E input \in Chunks : Update(input)
    \/ \E input \in Chunks : \E lo \in 0..Len(input) : \E hi \in lo..Len(input) :
          UpdateRange(input, lo, hi)
    \/ GetOutput
    \/ Output
    \/ Reset

SpecAgg == InitAgg /\ [][NextAgg]_vars

\* the non-null datums of a sequence of datums, unwrapped, in their order
RECURSIVE NonNullValues(_)
NonNullValues(datums) ==
    IF datums = <<>> THEN <<>>
    ELSE IF Head(datums) = None THEN NonNullValues(Tail(datums))
    ELSE <<Head(datums)[1]>> \o NonNullValues(Tail(datums))

\* the first of the positions 1..n whose rank p/n equals or exceeds the fraction
DiscPosition(fr, n) ==
    CHOOSE p \in 1..n :
        /\ p * Unit >= fr * n
        /\ \A q \in 1..(p - 1) : q * Unit < fr * n

\* ceil(fraction * n): the integer k with k - 1 < fraction * n <= k
CeilOfProduct(fr, n) ==
    CHOOSE k \in 0..n : (k - 1) * Unit < fr * n /\ fr * n <= k * Unit

\* C23: discrete percentile selection. The aggregator holds the non-null
\* values it was fed, in input order. With n >= 1 values held, get_output
\* returns the first value for fraction 0 and, for a fraction in (0, 1], the
\* value at 1-based position ceil(fraction * n), which is the first position
\* whose rank equals or exceeds the fraction. It returns NULL when the fraction
\* is NULL or no value is held, as is the case right after output() or reset().
C23_DiscretePercentile ==
    /\ agg.data = NonNullValues(agg.fed)
    /\ last.op \in {"output", "reset"} => agg.data = <<>>
    /\ last.op \in {"get_output", "output"} =>
          LET a == last.before
              n == Len(a.data)
          IN  /\ (a.fractions = None \/ n = 0) => last.res = None
              /\ (a.fractions # None /\ n >= 1) =>
                    LET fr == a.fractions[1]
                    IN  /\ fr = 0 => last.res = Some(a.data[1])
                        /\ fr > 0 =>
                              /\ CeilOfProduct(fr, n) = DiscPosition(fr, n)
                              /\ last.res = Some(a.data[DiscPosition(fr, n)])

====
